---- MODULE Spec2Model ----
(***************************************************************************)
(* gitu/gitlab-util: the merge request manager of pkg/ggl.                  *)
(*                                                                         *)
(* The model covers mergeRequestManager.go: the record store (pebble keys  *)
(* "mr-<id>", "project-<id>", "merge-target-<id>", "ts-<id>"), the         *)
(* staleness-gated sync (GetOrFetchMergeRequests, FetchMergeRequests,      *)
(* FetchProjects, FetchProjectsIfNotOutdated), the merge target state      *)
(* machine (processMerge, reschedule, stopProcessing), the two background  *)
(* loops (processor, processEnqueuer) with their hand-off channel, and the *)
(* operations the UI calls (ApproveAndMergeMergeRequest, ClearMerge).      *)
(*                                                                         *)
(* Time is counted in half seconds, so that an instant and its RFC3339     *)
(* text, which has whole seconds, can differ.  The GitLab API is a black   *)
(* box: every remote call either fails or returns a snapshot.  Every store *)
(* call the code checks the error of may fail.                             *)
(***************************************************************************)
EXTENDS Integers, Sequences, FiniteSets, TLC

----------------------------------------------------------------------------
(* Program constants                                                       *)

\* the resolution of time.RFC3339, the layout setTimeStamp formats with: one
\* second, two units of time of the model
Second == 2
\* time.Minute
OneMinute == 60 * Second
\* time.Time{}: what GetTimeStamp returns for a missing key, and the Latest
\* of a target that was never processed
ZeroTime == 0
\* reschedule(target, 0*time.Minute, ...) after a successful approval
NoDelay == 0
\* time.Now().Add(-30*time.Minute) in processEnqueuer
GcGrace == 30 * OneMinute
\* time.Since(lastFetch) > 60*time.Minute in FetchProjectsIfNotOutdated
ProjectTTL == 60 * OneMinute
\* time.Since(lastFetch) > 1*time.Minute in GetOrFetchMergeRequests
MrTTL == 1 * OneMinute
\* the channel made with room for one target: make(chan mergeTarget, 1)
BufferedQueueCap == Cardinality({"target"})

\* make(chan mergeTarget): the hand-off channel has no buffer
QueueCap == 0

----------------------------------------------------------------------------
(* Bounds of the model                                                     *)

\* the clock advances at most this many times
MaxTicks == 1
\* a diff has at most this many fragments (files)
MaxFrags == 2
\* how many goroutines of each kind the calls of Start may spawn in all
MaxGoroutines == 2

\* the wall clock when the program starts: later than ZeroTime by more than
\* every TTL, as any real clock is, and not on a whole second
StartTime == ZeroTime + ProjectTTL + GcGrace + 10 * OneMinute + 1
\* the amounts by which the clock advances between two steps
SchedulerSteps == {OneMinute}
SyncSteps == {OneMinute, ProjectTTL}

----------------------------------------------------------------------------
(* Data                                                                    *)

\* ids of the merge requests (gitlab.MergeRequest.ID) the model knows
MrIds == {1, 2}
\* ids of the projects
ProjectIds == {1, 2}
\* every merge request of the model lives in project 1; its IID is its ID
\* plus 10 (the remote system finds a merge request by project and IID)
ProjectOf(id) == 1
IidOf(id) == id + 10
RemoteId(project, iid) == CHOOSE id \in MrIds : ProjectOf(id) = project /\ IidOf(id) = iid

\* processMerge: the detailed merge statuses of the first case
TransientStatuses ==
    {"approvals_syncing", "blocked_status", "checking", "ci_must_pass",
     "ci_still_running", "conflict", "external_status_checks",
     "jira_association_missing", "need_rebase", "unchecked", "locked_paths",
     "locked_lfs_files"}
\* processMerge: the statuses of the last case
BlockingStatuses ==
    {"discussions_not_resolved", "draft_status", "not_open", "requested_changes"}
\* a status processMerge has no case for
OtherStatuses == {"preparing"}
AllStatuses ==
    TransientStatuses \cup {"not_approved", "mergeable"} \cup BlockingStatuses
        \cup OtherStatuses
\* a status of each case of processMerge that goes on to reschedule, to
\* PullDiff and to AcceptMergeRequest
SomeStatuses == {"ci_still_running", "not_approved", "mergeable"}

\* gitlab.MergeRequestDiff.Diff: the diff text of one file
Fragments == {"a", "b", "a\nb"}
\* []*gitlab.MergeRequestDiff with at most n fragments
DiffListsUpTo(n) == UNION {[1..k -> Fragments] : k \in 0..n}
AllDiffs == DiffListsUpTo(MaxFrags)
SomeDiffs == {<<"a">>, <<"b">>}

RECURSIVE RenderFrom(_, _)
RenderFrom(diff, text) ==
    IF diff = <<>> THEN text
    ELSE RenderFrom(Tail(diff), text \o Head(diff) \o "\n")
\* RenderDiffString: diffText += fmt.Sprintf("%v\n", d.Diff) for every fragment
RenderDiffString(diff) == RenderFrom(diff, "")

\* the value of a key the store does not hold
Absent == [absent |-> TRUE]

\* type mergeTarget
MergeTarget(id, project, iid, hash, info, latest, next, active) ==
    [Id |-> id, ProjectID |-> project, MergeID |-> iid, DiffHash |-> hash,
     Info |-> info, Latest |-> latest, Next |-> next, Active |-> active]

\* when the remote last updated a merge request: every change of its status
\* is an update, and no two snapshots of the model have the same time
UpdatedAt(id, status) ==
    IF status = "unchecked" THEN id ELSE 2 * Cardinality(MrIds) + 1 - id

\* the fields of gitlab.MergeRequest the manager reads
MergeRequest(id, status) ==
    [ID |-> id, ProjectID |-> ProjectOf(id), IID |-> IidOf(id),
     DetailedMergeStatus |-> status, UpdatedAt |-> UpdatedAt(id, status)]
\* the field of gitlab.Project the manager reads
Project(id) == [ID |-> id]
\* ApproveMergeRequest returns a *gitlab.MergeRequestApprovals; processMerge
\* stores it under the merge request's key, and read back as a
\* gitlab.MergeRequest it has the id, project and iid and no detailed status
ApprovalsAsMergeRequest(id) == MergeRequest(id, "")

IsTarget(r) == r # Absent
IsActive(r) == r # Absent /\ r.Active
IsInactive(r) == r # Absent /\ ~r.Active

Min(a, b) == IF a < b THEN a ELSE b

----------------------------------------------------------------------------
(* State                                                                   *)

VARIABLES
    now,          \* the wall clock, what time.Now() returns
    ticks,        \* how many times the clock has advanced
    world,        \* what exists outside: merge request ids, statuses, diffs
    glDiff,       \* remote: the current diff of every merge request
    glMrs,        \* remote: the open merge requests the listing returns
    glProjects,   \* remote: the projects the listing returns
    mrCache,      \* store: key "mr-<id>"
    projectCache, \* store: key "project-<id>"
    targets,      \* store: key "merge-target-<id>"
    tsProjects,   \* store: key "ts-last-fetch-projects"
    tsMrs,        \* store: key "ts-last-fetch-mr-<author>-<reviewer>"
    processQueue, \* the buffer of the channel m.processQueue
    wPc,          \* processor: where the worker goroutine is
    wTarget,      \* processor: the target it received (processMerge's copy)
    wStatus,      \* processor: mr.DetailedMergeStatus of the fetched snapshot
    wArgs,        \* processor: the arguments of the pending reschedule / stopProcessing
    wLog,         \* what the worker did for the target it is processing
    ePc,          \* processEnqueuer: where the enqueuer goroutine is
    eList,        \* processEnqueuer: mrt, the targets still to examine
    cPc,          \* a caller of ApproveAndMergeMergeRequest: idle or sending
    cTarget,      \* the target that caller is sending
    sync,         \* what the last call of GetOrFetchMergeRequests did
    running,      \* Start: how many processor and enqueuer goroutines it spawned
    otherProcessor, \* the locals of the processor goroutine that is not in w*
    otherEnqueuer   \* the locals of the enqueuer goroutine that is not in e*

remoteVars == <<glDiff, glMrs, glProjects>>
storeVars == <<mrCache, projectCache, targets, tsProjects, tsMrs>>
workerVars == <<wPc, wTarget, wStatus, wArgs, wLog>>
enqueuerVars == <<ePc, eList>>
callerVars == <<cPc, cTarget>>
startVars == <<running, otherProcessor, otherEnqueuer>>
vars == <<now, ticks, world, remoteVars, storeVars, processQueue, workerVars,
          enqueuerVars, callerVars, sync, startVars>>

\* a timestamp key: missing, or the time written
NoTimeStamp == [found |-> FALSE, t |-> ZeroTime]
TimeStamp(t) == [found |-> TRUE, t |-> t]

NoArgs == [delay |-> NoDelay, info |-> ""]
NoLog ==
    [calls |-> {}, failed |-> {}, pulled |-> FALSE, diff |-> <<>>, put |-> Absent,
     stored |-> FALSE, at |-> ZeroTime]
\* the call of GetOrFetchMergeRequests in progress or returned: where it is
\* (pc), its locals (force, page, next, items, keys), what it returned (err,
\* result); and, kept for the properties, what became of its two refreshes
\* ("skipped", "started" and not finished, "done"), the merge requests the
\* remote returned to it (seen: the mrIds of FetchMergeRequests with the
\* snapshots), the keys it deleted (removed), and the listing of the last refresh of the merge requests
\* that succeeded with whether the cache was written since
NoSync ==
    [pc |-> "idle", op |-> "none", force |-> FALSE, err |-> "", result |-> <<>>,
     projects |-> "skipped", mrs |-> "skipped",
     page |-> 0, next |-> 0, items |-> <<>>, keys |-> <<>>,
     seen |-> [id \in MrIds |-> Absent], removed |-> {},
     refreshed |-> FALSE, listing |-> [id \in MrIds |-> Absent], written |-> FALSE]

InitialDiff == <<"a">>

RECURSIVE Concatenation(_)
\* the fragments of a diff one after the other, nothing between them
Concatenation(diff) ==
    IF diff = <<>> THEN "" ELSE Head(diff) \o Concatenation(Tail(diff))

\* the target of an authorization with the plain concatenation as DiffHash
NewTargetConcatenated(mr, diff, t) ==
    MergeTarget(mr.ID, mr.ProjectID, mr.IID, Concatenation(diff), "enabled",
                ZeroTime, t, TRUE)

\* ApproveAndMergeMergeRequest: the target it builds from the cached merge
\* request and the diff the user reviewed
NewTarget(mr, diff, t) ==
    MergeTarget(mr.ID, mr.ProjectID, mr.IID, RenderDiffString(diff), "enabled",
                ZeroTime, t, TRUE)

\* a processor goroutine waiting in its range loop, an enqueuer goroutine
\* about to load
NoProcessor ==
    [wPc |-> "recv", wTarget |-> Absent, wStatus |-> "", wArgs |-> NoArgs,
     wLog |-> NoLog]
NoEnqueuer == [ePc |-> "load", eList |-> <<>>]
\* NewMergeRequestManager(...).Start(): one goroutine of each kind
StartedOnce == [processors |-> 1, enqueuers |-> 1]

\* nothing listed by the remote, nothing synced yet
InitUnsynced ==
    /\ glMrs = [id \in MrIds |-> Absent]
    /\ glProjects = [p \in ProjectIds |-> Absent]
    /\ projectCache = [p \in ProjectIds |-> Absent]
    /\ tsProjects = NoTimeStamp
    /\ tsMrs = NoTimeStamp

\* what every specification starts from: the clock at StartTime, nothing
\* fetched yet, no call made, Start called once
InitCommon ==
    /\ now = StartTime
    /\ ticks = 0
    /\ glDiff = [id \in MrIds |-> InitialDiff]
    /\ processQueue = <<>>
    /\ wStatus = ""
    /\ wArgs = NoArgs
    /\ wLog = NoLog
    /\ ePc = "load"
    /\ eList = <<>>
    /\ cPc = "idle"
    /\ cTarget = Absent
    /\ sync = NoSync
    /\ running = StartedOnce
    /\ otherProcessor = NoProcessor
    /\ otherEnqueuer = NoEnqueuer

\* GetDefaultDb opens the store of the earlier runs of the program: the
\* targets such a run can have left for a merge request.  None; one enabled
\* and due; one merged GcGrace ago; one aborted for a changed diff longer ago
LeftOver(id) ==
    {Absent,
     MergeTarget(id, ProjectOf(id), IidOf(id), RenderDiffString(InitialDiff),
                 "enabled", ZeroTime, StartTime - OneMinute, TRUE),
     MergeTarget(id, ProjectOf(id), IidOf(id), RenderDiffString(InitialDiff),
                 "merged", StartTime - GcGrace, StartTime - GcGrace, FALSE),
     MergeTarget(id, ProjectOf(id), IidOf(id), RenderDiffString(InitialDiff),
                 "aborted - diff changed", StartTime - GcGrace - OneMinute,
                 StartTime - GcGrace - OneMinute, FALSE)}

\* the state after NewMergeRequestManager(db, gl).Reviewer(r).Author(a).Start():
\* an empty hand-off channel, the worker waiting on it, the enqueuer about
\* to load the targets
Init ==
    /\ InitCommon
    /\ InitUnsynced
    /\ world = [ids |-> {1}, statuses |-> SomeStatuses, diffs |-> SomeDiffs,
                steps |-> SchedulerSteps, filter |-> TRUE,
                perPage |-> 1]
    /\ mrCache = [id \in MrIds |->
                    IF id \in world.ids THEN MergeRequest(id, "unchecked") ELSE Absent]
    /\ targets \in [MrIds -> UNION {LeftOver(id) : id \in MrIds}]
    /\ \A id \in MrIds :
         targets[id] \in (IF id \in world.ids THEN LeftOver(id) ELSE {Absent})
    /\ wPc = "recv"
    /\ wTarget = Absent

\* the worker has just received a target: one of merge request 1, authorized
\* for any diff, never processed or processed before.  Every status, every diff
InitWorker ==
    /\ InitCommon
    /\ InitUnsynced
    /\ world = [ids |-> {1}, statuses |-> AllStatuses, diffs |-> AllDiffs,
                steps |-> {OneMinute}, filter |-> TRUE,
                perPage |-> 1]
    /\ mrCache \in [MrIds -> {Absent, MergeRequest(1, "unchecked")}]
    /\ mrCache[2] = Absent
    /\ \E diff \in AllDiffs, latest \in {ZeroTime, StartTime - OneMinute} :
         LET authorized == NewTarget(MergeRequest(1, "unchecked"), diff,
                                     StartTime - OneMinute)
             target == [authorized EXCEPT !.Latest = latest]
         IN /\ wTarget = target
            /\ targets = [id \in MrIds |-> IF id = 1 THEN target ELSE Absent]
    /\ wPc = "fetch"

----------------------------------------------------------------------------
(* The environment                                                         *)

\* time passes
Tick(d) ==
    /\ ticks < MaxTicks
    /\ now' = now + d
    /\ ticks' = ticks + 1
    /\ UNCHANGED <<world, startVars, remoteVars, storeVars, processQueue, workerVars,
                   enqueuerVars, callerVars, sync>>

\* somebody pushes to the source branch of a merge request
RemotePush(id, diff) ==
    /\ diff # glDiff[id]
    /\ glDiff' = [glDiff EXCEPT ![id] = diff]
    /\ UNCHANGED <<now, ticks, world, startVars, glMrs, glProjects, storeVars, processQueue,
                   workerVars, enqueuerVars, callerVars, sync>>

----------------------------------------------------------------------------
(* The hand-off channel                                                    *)

\* a send that completes only into the buffer, never to a waiting receiver
BufferHasRoom == Len(processQueue) < QueueCap

\* m.processQueue <- target can complete: the worker is waiting in its
\* range loop, or the buffer has room
CanSend == wPc = "recv" \/ Len(processQueue) < QueueCap

\* m.processQueue <- target completes
Send(target) ==
    IF wPc = "recv"
    THEN /\ wPc' = "fetch"
         /\ wTarget' = target
         /\ UNCHANGED processQueue
    ELSE /\ processQueue' = Append(processQueue, target)
         /\ UNCHANGED <<wPc, wTarget>>

----------------------------------------------------------------------------
(* Operations the UI calls                                                 *)

\* ApproveAndMergeMergeRequest up to the send of process(): the merge request
\* must be in the cache and the store of the target must succeed, otherwise
\* the error is returned
ApproveAndMergeMergeRequest(id, diff) ==
    /\ cPc = "idle"
    /\ \E ok \in BOOLEAN :
         IF mrCache[id] # Absent /\ ok
         THEN LET target == NewTarget(mrCache[id], diff, now)
              IN /\ targets' = [targets EXCEPT ![target.Id] = target]
                 /\ cPc' = "send"
                 /\ cTarget' = target
         ELSE UNCHANGED <<targets, cPc, cTarget>>
    /\ UNCHANGED <<now, ticks, world, startVars, remoteVars, mrCache, projectCache, tsProjects,
                   tsMrs, processQueue, workerVars, enqueuerVars, sync>>

\* process(): m.processQueue <- target, then return nil
CallerSend ==
    /\ cPc = "send"
    /\ CanSend
    /\ Send(cTarget)
    /\ cPc' = "idle"
    /\ cTarget' = Absent
    /\ UNCHANGED <<now, ticks, world, startVars, remoteVars, storeVars, wStatus, wArgs, wLog,
                   enqueuerVars, sync>>

\* the record ClearMerge writes
ClearedTarget(id, t) == MergeTarget(id, 0, 0, "", "cleared", t, t, FALSE)

ClearMerge(id) ==
    /\ \E ok \in BOOLEAN :
         targets' = IF ok THEN [targets EXCEPT ![id] = ClearedTarget(id, now)]
                    ELSE targets
    /\ UNCHANGED <<now, ticks, world, startVars, remoteVars, mrCache, projectCache, tsProjects,
                   tsMrs, processQueue, workerVars, enqueuerVars, callerVars, sync>>

----------------------------------------------------------------------------
(* The merge target state machine                                          *)

\* reschedule() with the delay forgotten
RescheduleWithoutDelay(target, delay, info, t) ==
    [target EXCEPT !.Next = t, !.Info = info]

\* reschedule() stopping the target it delays
RescheduleStopping(target, delay, info, t) ==
    [target EXCEPT !.Active = FALSE, !.Next = t + delay, !.Info = info]

\* reschedule() counting the delay from the Latest of the target
RescheduleAtLatest(target, delay, info, t) ==
    [target EXCEPT !.Next = target.Latest + delay, !.Info = info]

\* reschedule(): the record it stores, t being its time.Now()
Reschedule(target, delay, info, t) ==
    [target EXCEPT !.Next = t + delay, !.Info = info]

\* stopProcessing() leaving the target active
StopProcessingStillActive(target, info, t) ==
    [target EXCEPT !.Next = t, !.Info = info]

\* stopProcessing(): the record it stores, t being its time.Now()
StopProcessing(target, info, t) ==
    [target EXCEPT !.Active = FALSE, !.Next = t, !.Info = info]

\* the switch on mergeStatus with a default case that stops the target
DecideStoppingByDefault(mergeStatus) ==
    CASE mergeStatus \in TransientStatuses ->
           [pc |-> "resched", delay |-> OneMinute,
            info |-> "status " \o mergeStatus \o " - will check again in 1 minute"]
      [] mergeStatus = "not_approved" ->
           [pc |-> "pulldiff", delay |-> NoDelay, info |-> ""]
      [] mergeStatus = "mergeable" ->
           [pc |-> "accept", delay |-> NoDelay, info |-> ""]
      [] OTHER ->
           [pc |-> "stop", delay |-> NoDelay, info |-> "aborted - " \o mergeStatus]

\* processMerge: the switch on mergeStatus.  What the worker does next, with
\* the arguments of the reschedule or stopProcessing of the cases that make
\* no remote call
Decide(mergeStatus) ==
    CASE mergeStatus \in TransientStatuses ->
           [pc |-> "resched", delay |-> OneMinute,
            info |-> "status " \o mergeStatus \o " - will check again in 1 minute"]
      [] mergeStatus = "not_approved" ->
           [pc |-> "pulldiff", delay |-> NoDelay, info |-> ""]
      [] mergeStatus = "mergeable" ->
           [pc |-> "accept", delay |-> NoDelay, info |-> ""]
      [] mergeStatus \in BlockingStatuses ->
           [pc |-> "stop", delay |-> NoDelay, info |-> "aborted - " \o mergeStatus]
      [] OTHER ->
           [pc |-> "done", delay |-> NoDelay, info |-> ""]

\* the comparison of the lengths of the two texts instead of the texts
DiffLengthChanged(currentDiff, target) == Len(currentDiff) # Len(target.DiffHash)

\* processMerge: currentDiff != target.DiffHash
DiffChanged(currentDiff, target) == currentDiff # target.DiffHash

----------------------------------------------------------------------------
(* processor: the worker goroutine                                         *)

\* processor: GetMergeRequest(target.ProjectID, target.MergeID).  On an error
\* the worker continues with the next target; otherwise it stores the
\* snapshot (an error of the store is logged) and calls processMerge
WorkerGetMergeRequest ==
    /\ wPc = "fetch"
    /\ \/ /\ wPc' = "done"
          /\ UNCHANGED <<mrCache, wStatus>>
       \/ \E status \in world.statuses, ok \in BOOLEAN :
            LET mr == MergeRequest(RemoteId(wTarget.ProjectID, wTarget.MergeID), status)
            IN /\ mrCache' = IF ok THEN [mrCache EXCEPT ![mr.ID] = mr] ELSE mrCache
               /\ wStatus' = status
               /\ wPc' = "merge"
    /\ UNCHANGED <<now, ticks, world, startVars, remoteVars, projectCache, targets, tsProjects,
                   tsMrs, processQueue, wTarget, wArgs, wLog, enqueuerVars,
                   callerVars, sync>>

\* a processMerge called with the status of the stored merge request
WorkerProcessMergeCached ==
    /\ wPc = "merge"
    /\ IF ~wTarget.Active
       THEN /\ wPc' = "done"
            /\ UNCHANGED <<wTarget, wArgs>>
       ELSE LET cached == mrCache[wTarget.Id]
                d == Decide(IF cached = Absent THEN "" ELSE cached.DetailedMergeStatus)
            IN /\ wTarget' = [wTarget EXCEPT !.Latest = now]
               /\ wPc' = d.pc
               /\ wArgs' = [delay |-> d.delay, info |-> d.info]
    /\ UNCHANGED <<now, ticks, world, startVars, remoteVars, storeVars, processQueue,
                   wStatus, wLog, enqueuerVars, callerVars, sync>>

\* processMerge up to its first call: the Active check, Latest = time.Now()
\* and the switch
WorkerProcessMerge ==
    /\ wPc = "merge"
    /\ IF ~wTarget.Active
       THEN /\ wPc' = "done"
            /\ UNCHANGED <<wTarget, wArgs>>
       ELSE LET d == Decide(wStatus)
            IN /\ wTarget' = [wTarget EXCEPT !.Latest = now]
               /\ wPc' = d.pc
               /\ wArgs' = [delay |-> d.delay, info |-> d.info]
    /\ UNCHANGED <<now, ticks, world, startVars, remoteVars, storeVars, processQueue, wStatus,
                   wLog, enqueuerVars, callerVars, sync>>

\* processMerge, case "not_approved": PullDiff (the cached merge request, then
\* the remote diff listing) and the comparison with the fingerprint
WorkerPullDiff ==
    /\ wPc = "pulldiff"
    /\ \/ /\ wPc' = "resched"
          /\ wArgs' = [delay |-> OneMinute,
                       info |-> "error pulling diff - will check again in 1 minute"]
          /\ UNCHANGED wLog
       \/ /\ mrCache[wTarget.Id] # Absent
          /\ LET mr == mrCache[wTarget.Id]
                 diff == glDiff[RemoteId(mr.ProjectID, mr.IID)]
                 currentDiff == RenderDiffString(diff)
             IN /\ wLog' = [wLog EXCEPT !.pulled = TRUE, !.diff = diff]
                /\ IF DiffChanged(currentDiff, wTarget)
                   THEN /\ wPc' = "stop"
                        /\ wArgs' = [delay |-> NoDelay, info |-> "aborted - diff changed"]
                   ELSE /\ wPc' = "approve"
                        /\ UNCHANGED wArgs
    /\ UNCHANGED <<now, ticks, world, startVars, remoteVars, storeVars, processQueue, wTarget,
                   wStatus, enqueuerVars, callerVars, sync>>

\* processMerge, case "not_approved": ApproveMergeRequest, the store of what
\* it returns (an error of the store is logged)
WorkerApprove ==
    /\ wPc = "approve"
    /\ wPc' = "resched"
    /\ \/ /\ wLog' = [wLog EXCEPT !.calls = @ \cup {"approve"},
                                   !.failed = @ \cup {"approve"}]
          /\ wArgs' = [delay |-> OneMinute,
                       info |-> "error approving - will check again in 1 minute"]
          /\ UNCHANGED mrCache
       \/ \E ok \in BOOLEAN :
            LET id == RemoteId(wTarget.ProjectID, wTarget.MergeID)
            IN /\ wLog' = [wLog EXCEPT !.calls = @ \cup {"approve"}]
               /\ mrCache' = IF ok THEN [mrCache EXCEPT ![id] = ApprovalsAsMergeRequest(id)]
                             ELSE mrCache
               /\ wArgs' = [delay |-> NoDelay, info |-> "approved - will try to merge"]
    /\ UNCHANGED <<now, ticks, world, startVars, remoteVars, projectCache, targets, tsProjects,
                   tsMrs, processQueue, wTarget, wStatus, enqueuerVars, callerVars, sync>>

\* processMerge, case "mergeable": AcceptMergeRequest, the store of the
\* snapshot it returns (an error of the store is logged)
WorkerAccept ==
    /\ wPc = "accept"
    /\ \/ /\ wLog' = [wLog EXCEPT !.calls = @ \cup {"merge"},
                                   !.failed = @ \cup {"merge"}]
          /\ wPc' = "resched"
          /\ wArgs' = [delay |-> OneMinute,
                       info |-> "error merging - will check again in 1 minute"]
          /\ UNCHANGED mrCache
       \/ \E status \in world.statuses, ok \in BOOLEAN :
            LET mr == MergeRequest(RemoteId(wTarget.ProjectID, wTarget.MergeID), status)
            IN /\ wLog' = [wLog EXCEPT !.calls = @ \cup {"merge"}]
               /\ mrCache' = IF ok THEN [mrCache EXCEPT ![mr.ID] = mr] ELSE mrCache
               /\ wPc' = "stop"
               /\ wArgs' = [delay |-> NoDelay, info |-> "merged"]
    /\ UNCHANGED <<now, ticks, world, startVars, remoteVars, projectCache, targets, tsProjects,
                   tsMrs, processQueue, wTarget, wStatus, enqueuerVars, callerVars, sync>>

\* storeTargetSilent: an error of the store is logged and nothing else
StoreTargetSilent(target) ==
    \E ok \in BOOLEAN :
      /\ targets' = IF ok THEN [targets EXCEPT ![target.Id] = target] ELSE targets
      /\ wLog' = [wLog EXCEPT !.put = target, !.stored = ok, !.at = now]

\* reschedule()
WorkerReschedule ==
    /\ wPc = "resched"
    /\ StoreTargetSilent(Reschedule(wTarget, wArgs.delay, wArgs.info, now))
    /\ wPc' = "done"
    /\ UNCHANGED <<now, ticks, world, startVars, remoteVars, mrCache, projectCache, tsProjects,
                   tsMrs, processQueue, wTarget, wStatus, wArgs, enqueuerVars,
                   callerVars, sync>>

\* stopProcessing()
WorkerStopProcessing ==
    /\ wPc = "stop"
    /\ StoreTargetSilent(StopProcessing(wTarget, wArgs.info, now))
    /\ wPc' = "done"
    /\ UNCHANGED <<now, ticks, world, startVars, remoteVars, mrCache, projectCache, tsProjects,
                   tsMrs, processQueue, wTarget, wStatus, wArgs, enqueuerVars,
                   callerVars, sync>>

\* processor: back to "for target := range m.processQueue": the worker takes
\* the next target of the buffer, or waits for a sender
WorkerLoop ==
    /\ wPc = "done"
    /\ wStatus' = ""
    /\ wArgs' = NoArgs
    /\ wLog' = NoLog
    /\ IF processQueue # <<>>
       THEN /\ wPc' = "fetch"
            /\ wTarget' = Head(processQueue)
            /\ processQueue' = Tail(processQueue)
       ELSE /\ wPc' = "recv"
            /\ wTarget' = Absent
            /\ UNCHANGED processQueue
    /\ UNCHANGED <<now, ticks, world, startVars, remoteVars, storeVars, enqueuerVars,
                   callerVars, sync>>

----------------------------------------------------------------------------
(* processEnqueuer: the enqueuer goroutine                                 *)

RECURSIVE Ascending(_)
\* the elements of a set of numbers in ascending order
Ascending(S) ==
    IF S = {} THEN <<>>
    ELSE LET least == CHOOSE x \in S : \A y \in S : x <= y
         IN <<least>> \o Ascending(S \ {least})

RECURSIVE ValuesOf(_, _)
ValuesOf(f, keys) ==
    IF keys = <<>> THEN <<>>
    ELSE <<f[Head(keys)]>> \o ValuesOf(f, Tail(keys))

\* loadPrefix: the values of the keys with the prefix, in key order (for the
\* one-digit ids of the model the order of the keys is the order of the ids)
LoadPrefix(f) == ValuesOf(f, Ascending({k \in DOMAIN f : f[k] # Absent}))

\* the test with a target due at the very time of its Next
DueInclusive(target, t) == target.Active /\ target.Next <= t

\* processEnqueuer: target.Active && target.Next.Before(time.Now())
Due(target, t) == target.Active /\ target.Next < t

\* processEnqueuer: !target.Active && target.Latest.Before(time.Now().Add(-30*time.Minute))
\*                  && target.Info != "aborted - diff changed"
Collectable(target, t) ==
    /\ ~target.Active
    /\ target.Latest < t - GcGrace
    /\ target.Info # "aborted - diff changed"

\* processEnqueuer: the second if of the loop body; an error of the delete
\* is logged
CollectGarbage(target) ==
    IF Collectable(target, now)
    THEN \E ok \in BOOLEAN :
           targets' = IF ok THEN [targets EXCEPT ![target.Id] = Absent] ELSE targets
    ELSE UNCHANGED targets

\* processEnqueuer: loadPrefix("merge-target-", &mrt); on an error it sleeps
\* two seconds and loads again
EnqueuerLoad ==
    /\ ePc = "load"
    /\ \/ UNCHANGED <<ePc, eList>>
       \/ /\ eList' = LoadPrefix(targets)
          /\ ePc' = "scan"
    /\ UNCHANGED <<now, ticks, world, startVars, remoteVars, storeVars, processQueue,
                   workerVars, callerVars, sync>>

\* processEnqueuer: the loop body for a target that is not due, or the first
\* if of the loop body for one that is: the enqueuer goes to the send
EnqueuerExamine ==
    /\ ePc = "scan"
    /\ eList # <<>>
    /\ IF Due(Head(eList), now)
       THEN /\ ePc' = "send"
            /\ UNCHANGED <<eList, targets>>
       ELSE /\ CollectGarbage(Head(eList))
            /\ eList' = Tail(eList)
            /\ UNCHANGED ePc
    /\ UNCHANGED <<now, ticks, world, startVars, remoteVars, mrCache, projectCache, tsProjects,
                   tsMrs, processQueue, workerVars, callerVars, sync>>

\* processEnqueuer: m.processQueue <- target completes, then the second if of
\* the loop body
EnqueuerSend ==
    /\ ePc = "send"
    /\ CanSend
    /\ Send(Head(eList))
    /\ CollectGarbage(Head(eList))
    /\ eList' = Tail(eList)
    /\ ePc' = "scan"
    /\ UNCHANGED <<now, ticks, world, startVars, remoteVars, mrCache, projectCache, tsProjects,
                   tsMrs, wStatus, wArgs, wLog, callerVars, sync>>

\* processEnqueuer: every target examined, time.Sleep(5 * time.Second), and
\* the next round
EnqueuerSleep ==
    /\ ePc = "scan"
    /\ eList = <<>>
    /\ ePc' = "load"
    /\ UNCHANGED <<now, ticks, world, startVars, remoteVars, storeVars, processQueue,
                   workerVars, eList, callerVars, sync>>

----------------------------------------------------------------------------
(* The scheduler: the two loops, the UI's calls, the environment           *)

Next ==
    \/ \E d \in world.steps : Tick(d)
    \/ \E id \in world.ids, diff \in world.diffs : ApproveAndMergeMergeRequest(id, diff)
    \/ CallerSend
    \/ \E id \in world.ids : ClearMerge(id)
    \/ WorkerGetMergeRequest
    \/ WorkerProcessMerge
    \/ WorkerPullDiff
    \/ WorkerApprove
    \/ WorkerAccept
    \/ WorkerReschedule
    \/ WorkerStopProcessing
    \/ WorkerLoop
    \/ EnqueuerLoad
    \/ EnqueuerExamine
    \/ EnqueuerSend
    \/ EnqueuerSleep

\* the scheduler as the program runs it
Spec == Init /\ [][Next]_vars

\* the worker alone, processing one target
WorkerNext ==
    \/ \E d \in world.steps : Tick(d)
    \/ \E id \in world.ids, diff \in SomeDiffs : RemotePush(id, diff)
    \/ WorkerGetMergeRequest
    \/ WorkerProcessMerge
    \/ WorkerPullDiff
    \/ WorkerApprove
    \/ WorkerAccept
    \/ WorkerReschedule
    \/ WorkerStopProcessing
    \/ WorkerLoop

SpecWorker == InitWorker /\ [][WorkerNext]_vars

----------------------------------------------------------------------------
(* The scheduler under fair scheduling                                     *)

\* the clock steps over the minute of a reschedule
FairSteps == {2 * OneMinute}

\* a remote that answers "ci_still_running" or "mergeable", one diff
FairInit ==
    /\ InitCommon
    /\ InitUnsynced
    /\ world = [ids |-> {1}, statuses |-> {"ci_still_running", "mergeable"},
                diffs |-> {InitialDiff}, steps |-> FairSteps,
                filter |-> TRUE, perPage |-> 1]
    /\ mrCache = [id \in MrIds |->
                    IF id \in world.ids THEN MergeRequest(id, "unchecked") ELSE Absent]
    /\ targets \in [MrIds -> UNION {LeftOver(id) : id \in MrIds}]
    /\ \A id \in MrIds :
         targets[id] \in (IF id \in world.ids THEN LeftOver(id) ELSE {Absent})
    /\ wPc = "recv"
    /\ wTarget = Absent

\* the steps of the processor goroutine between a receive and the next
WorkerStep ==
    \/ WorkerGetMergeRequest
    \/ WorkerProcessMerge
    \/ WorkerAccept
    \/ WorkerReschedule
    \/ WorkerStopProcessing
    \/ WorkerLoop

\* the steps of the enqueuer goroutine other than its send
EnqueuerStep ==
    \/ EnqueuerLoad
    \/ EnqueuerExamine
    \/ EnqueuerSleep

FairNext ==
    \/ \E d \in world.steps : Tick(d)
    \/ \E id \in world.ids, diff \in world.diffs : ApproveAndMergeMergeRequest(id, diff)
    \/ \E id \in world.ids : ClearMerge(id)
    \/ CallerSend
    \/ EnqueuerSend
    \/ WorkerStep
    \/ EnqueuerStep

\* the Go scheduler runs every goroutine that can run, and the remote calls
\* return: a processor or an enqueuer that can take a step and stays able
\* to take it does take it, and a loadPrefix that fails is followed by one
\* that succeeds.  The senders blocked on a channel wait in a first-in
\* first-out queue, so a sender that the processor comes back to receive
\* from again and again is served.  The clock advances
Fairness ==
    /\ WF_vars(WorkerStep)
    /\ WF_vars(EnqueuerStep)
    /\ SF_vars(EnqueuerSend)
    /\ SF_vars(CallerSend)
    /\ WF_vars(\E d \in world.steps : Tick(d))

FairSpec == FairInit /\ [][FairNext]_vars /\ Fairness

----------------------------------------------------------------------------
(* Start called again: a second processor and a second enqueuer            *)

\* Start(): go m.processor(); go m.processEnqueuer(), whatever runs already
Start ==
    /\ running.processors < MaxGoroutines
    /\ running' = [processors |-> running.processors + 1,
                   enqueuers |-> running.enqueuers + 1]
    /\ UNCHANGED <<now, ticks, world, remoteVars, storeVars, processQueue,
                   workerVars, enqueuerVars, callerVars, sync, otherProcessor,
                   otherEnqueuer>>

\* the goroutines of a second Start run the code of the first ones on the
\* same manager.  The steps of a processor are the Worker actions on the
\* locals in w*: the scheduler runs the other processor by exchanging the
\* locals of the two
ProcessorSwitch ==
    /\ running.processors > 1
    /\ otherProcessor' = [wPc |-> wPc, wTarget |-> wTarget, wStatus |-> wStatus,
                          wArgs |-> wArgs, wLog |-> wLog]
    /\ wPc' = otherProcessor.wPc
    /\ wTarget' = otherProcessor.wTarget
    /\ wStatus' = otherProcessor.wStatus
    /\ wArgs' = otherProcessor.wArgs
    /\ wLog' = otherProcessor.wLog
    /\ UNCHANGED <<now, ticks, world, remoteVars, storeVars, processQueue,
                   enqueuerVars, callerVars, sync, running, otherEnqueuer>>

\* the same for the two enqueuers and the locals in e*
EnqueuerSwitch ==
    /\ running.enqueuers > 1
    /\ otherEnqueuer' = [ePc |-> ePc, eList |-> eList]
    /\ ePc' = otherEnqueuer.ePc
    /\ eList' = otherEnqueuer.eList
    /\ UNCHANGED <<now, ticks, world, remoteVars, storeVars, processQueue,
                   workerVars, callerVars, sync, running, otherProcessor>>

\* a manager whose remote answers "ci_still_running" to every fetch
StartInit ==
    /\ InitCommon
    /\ InitUnsynced
    /\ world = [ids |-> {1}, statuses |-> {"ci_still_running"},
                diffs |-> {InitialDiff}, steps |-> SchedulerSteps,
                filter |-> TRUE, perPage |-> 1]
    /\ mrCache = [id \in MrIds |->
                    IF id \in world.ids THEN MergeRequest(id, "unchecked") ELSE Absent]
    /\ targets \in [MrIds -> UNION {LeftOver(id) : id \in MrIds}]
    /\ \A id \in MrIds :
         targets[id] \in (IF id \in world.ids THEN LeftOver(id) ELSE {Absent})
    /\ wPc = "recv"
    /\ wTarget = Absent

StartNext ==
    \/ Start
    \/ ProcessorSwitch
    \/ EnqueuerSwitch
    \/ \E d \in world.steps : Tick(d)
    \/ \E id \in world.ids, diff \in world.diffs : ApproveAndMergeMergeRequest(id, diff)
    \/ CallerSend
    \/ WorkerGetMergeRequest
    \/ WorkerProcessMerge
    \/ WorkerReschedule
    \/ WorkerLoop
    \/ EnqueuerLoad
    \/ EnqueuerExamine
    \/ EnqueuerSend
    \/ EnqueuerSleep

\* the scheduler when Start is called more than once
StartSpec == StartInit /\ [][StartNext]_vars

----------------------------------------------------------------------------
(* The staleness-gated sync: GetOrFetchMergeRequests, step by step         *)

\* t.Format(time.RFC3339): the text has whole seconds (the model keeps, for
\* the text, the instant it denotes)
FormatRFC3339(t) == t - (t % Second)
\* time.Parse(time.RFC3339, text)
ParseRFC3339(text) == text

\* the ids a listing or a cache holds
Listed(f) == {id \in DOMAIN f : f[id] # Absent}

\* the listing of the merge requests sorted by created_at, the latest first
\* (a later merge request has a greater id)
RECURSIVE Descending(_)
Descending(S) ==
    IF S = {} THEN <<>>
    ELSE LET greatest == CHOOSE x \in S : \A y \in S : y <= x
         IN <<greatest>> \o Descending(S \ {greatest})

\* the page of a listing the remote returns: PerPage items from the page's
\* first on
PageOf(ids, page) ==
    SubSeq(ids, (page - 1) * world.perPage + 1, Min(page * world.perPage, Len(ids)))
\* a remote that reports every page as the last one
NoNextPage(ids, page) == 0

\* resp.NextPage: 0 on the last page
NextPage(ids, page) == IF page * world.perPage >= Len(ids) THEN 0 ELSE page + 1

\* GetTimeStamp: what it returns when db.Get fails ("get"), when the key is
\* missing or read ("ok"; what setTimeStamp wrote always parses), and when
\* closer.Close fails ("close": the time read is returned with the error)
TimeStampOutcomes(ts) == IF ts.found THEN {"ok", "get", "close"} ELSE {"ok", "get"}
LastFetch(ts, outcome) ==
    IF outcome = "get" \/ ~ts.found THEN ZeroTime ELSE ParseRFC3339(ts.t)

\* the call returns: the UI may call again
Return(call, err, result) ==
    [call EXCEPT !.pc = "idle", !.err = err, !.result = result, !.items = <<>>,
                 !.keys = <<>>, !.page = 0, !.next = 0]

\* automerge.go, fetchMergeRequestsVariable:
\* m.mrm.GetOrFetchMergeRequests(force); one call is followed at a time
GetOrFetchMergeRequests(force) ==
    /\ sync.pc = "idle"
    /\ sync' = [sync EXCEPT !.pc = "projectsTs", !.op = "GetOrFetchMergeRequests",
                            !.force = force, !.err = "", !.result = <<>>,
                            !.projects = "skipped", !.mrs = "skipped",
                            !.seen = [id \in MrIds |-> Absent], !.removed = {}]
    /\ UNCHANGED <<now, ticks, world, startVars, remoteVars, storeVars, processQueue,
                   workerVars, enqueuerVars, callerVars>>

\* FetchProjectsIfNotOutdated: the error of GetTimeStamp is not looked at, so
\* that a timestamp that could not be read counts as the zero time
SyncProjectsTimeStamp ==
    /\ sync.pc = "projectsTs"
    /\ \E outcome \in TimeStampOutcomes(tsProjects) :
         LET lastFetch == LastFetch(tsProjects, outcome)
         IN sync' = IF now - lastFetch > ProjectTTL
                    THEN [sync EXCEPT !.pc = "listProjects", !.page = 1,
                                      !.projects = "started"]
                    ELSE [sync EXCEPT !.pc = "mrsTs"]
    /\ UNCHANGED <<now, ticks, world, startVars, remoteVars, storeVars, processQueue,
                   workerVars, enqueuerVars, callerVars>>

\* FetchProjects: m.gl.Projects.ListProjects(&opts)
SyncListProjects ==
    /\ sync.pc = "listProjects"
    /\ \E ok \in BOOLEAN :
         LET ids == Ascending(Listed(glProjects))
         IN sync' = IF ok
                    THEN [sync EXCEPT !.pc = "storeProjects",
                                        !.items = ValuesOf(glProjects, PageOf(ids, sync.page)),
                                        !.next = NextPage(ids, sync.page)]
                    ELSE Return(sync, "list", <<>>)
    /\ UNCHANGED <<now, ticks, world, startVars, remoteVars, storeVars, processQueue,
                   workerVars, enqueuerVars, callerVars>>

\* FetchProjects, the loop over the projects of the page:
\* m.store("project-"+strconv.Itoa(project.ID), project); then the next page,
\* unless resp.NextPage == 0.  No key is deleted.
SyncStoreProject ==
    /\ sync.pc = "storeProjects"
    /\ IF sync.items = <<>>
       THEN /\ sync' = IF sync.next = 0 THEN [sync EXCEPT !.pc = "stampProjects"]
                       ELSE [sync EXCEPT !.pc = "listProjects", !.page = sync.next]
            /\ UNCHANGED projectCache
       ELSE \E ok \in BOOLEAN :
              LET project == Head(sync.items)
              IN IF ok
                 THEN /\ projectCache' = [projectCache EXCEPT ![project.ID] = project]
                      /\ sync' = [sync EXCEPT !.items = Tail(@)]
                 ELSE /\ UNCHANGED projectCache
                      /\ sync' = Return(sync, "store", <<>>)
    /\ UNCHANGED <<now, ticks, world, startVars, remoteVars, mrCache, targets, tsProjects,
                   tsMrs, processQueue, workerVars, enqueuerVars, callerVars>>

\* FetchProjectsIfNotOutdated: setTimeStamp("last-fetch-projects", time.Now())
SyncStampProjects ==
    /\ sync.pc = "stampProjects"
    /\ \E ok \in BOOLEAN :
         IF ok
         THEN /\ tsProjects' = TimeStamp(FormatRFC3339(now))
              /\ sync' = [sync EXCEPT !.pc = "mrsTs", !.projects = "done"]
         ELSE /\ UNCHANGED tsProjects
              /\ sync' = Return(sync, "set", <<>>)
    /\ UNCHANGED <<now, ticks, world, startVars, remoteVars, mrCache, projectCache, targets,
                   tsMrs, processQueue, workerVars, enqueuerVars, callerVars>>

\* a FetchMergeRequests that lists whether or not a filter is set
SyncMrsTimeStampUnfiltered ==
    /\ sync.pc = "mrsTs"
    /\ \E outcome \in TimeStampOutcomes(tsMrs) :
         LET lastFetch == LastFetch(tsMrs, outcome)
             started == [sync EXCEPT !.mrs = "started"]
         IN sync' = IF outcome # "ok" THEN Return(sync, outcome, <<>>)
                    ELSE IF now - lastFetch > MrTTL \/ sync.force
                    THEN [started EXCEPT !.pc = "listMrs", !.page = 1]
                    ELSE [sync EXCEPT !.pc = "load"]
    /\ UNCHANGED <<now, ticks, world, startVars, remoteVars, storeVars, processQueue,
                   workerVars, enqueuerVars, callerVars>>

\* GetOrFetchMergeRequests: the timestamp of the merge requests read, its
\* error returned; time.Since(lastFetch) > 1*time.Minute || force; and the
\* first lines of FetchMergeRequests, the error when neither filter is set
SyncMrsTimeStamp ==
    /\ sync.pc = "mrsTs"
    /\ \E outcome \in TimeStampOutcomes(tsMrs) :
         LET lastFetch == LastFetch(tsMrs, outcome)
             started == [sync EXCEPT !.mrs = "started"]
         IN sync' = IF outcome # "ok" THEN Return(sync, outcome, <<>>)
                    ELSE IF now - lastFetch > MrTTL \/ sync.force
                    THEN IF world.filter
                         THEN [started EXCEPT !.pc = "listMrs", !.page = 1]
                         ELSE Return(started, "author and/or reviewer username must be set",
                                     <<>>)
                    ELSE [sync EXCEPT !.pc = "load"]
    /\ UNCHANGED <<now, ticks, world, startVars, remoteVars, storeVars, processQueue,
                   workerVars, enqueuerVars, callerVars>>

\* FetchMergeRequests: m.gl.MergeRequests.ListMergeRequests(opt)
SyncListMergeRequests ==
    /\ sync.pc = "listMrs"
    /\ \E ok \in BOOLEAN :
         LET ids == Descending(Listed(glMrs))
         IN sync' = IF ok
                    THEN [sync EXCEPT !.pc = "storeMrs",
                                        !.items = ValuesOf(glMrs, PageOf(ids, sync.page)),
                                        !.next = NextPage(ids, sync.page)]
                    ELSE Return(sync, "list", <<>>)
    /\ UNCHANGED <<now, ticks, world, startVars, remoteVars, storeVars, processQueue,
                   workerVars, enqueuerVars, callerVars>>

\* the loop over the merge requests of the page with the error of m.store
\* not looked at
SyncStoreMergeRequestUnchecked ==
    /\ sync.pc = "storeMrs"
    /\ IF sync.items = <<>>
       THEN /\ sync' = IF sync.next = 0 THEN [sync EXCEPT !.pc = "iter"]
                       ELSE [sync EXCEPT !.pc = "listMrs", !.page = sync.next]
            /\ UNCHANGED mrCache
       ELSE \E ok \in BOOLEAN :
              LET mr == Head(sync.items)
              IN /\ mrCache' = IF ok THEN [mrCache EXCEPT ![mr.ID] = mr] ELSE mrCache
                 /\ sync' = [sync EXCEPT !.seen[mr.ID] = mr, !.items = Tail(@),
                                         !.written = @ \/ (ok /\ mrCache[mr.ID] # mr)]
    /\ UNCHANGED <<now, ticks, world, startVars, remoteVars, projectCache, targets, tsProjects,
                   tsMrs, processQueue, workerVars, enqueuerVars, callerVars>>

\* FetchMergeRequests, the loop over the merge requests of the page:
\* mrIds[key] = true; m.store(mrKey(mr.ID), mr); then the next page, unless
\* resp.NextPage == 0
SyncStoreMergeRequest ==
    /\ sync.pc = "storeMrs"
    /\ IF sync.items = <<>>
       THEN /\ sync' = IF sync.next = 0 THEN [sync EXCEPT !.pc = "iter"]
                       ELSE [sync EXCEPT !.pc = "listMrs", !.page = sync.next]
            /\ UNCHANGED mrCache
       ELSE \E ok \in BOOLEAN :
              LET mr == Head(sync.items)
                  marked == [sync EXCEPT !.seen[mr.ID] = mr]
              IN IF ok
                 THEN /\ mrCache' = [mrCache EXCEPT ![mr.ID] = mr]
                      /\ sync' = [marked EXCEPT !.items = Tail(@),
                                                !.written = @ \/ mrCache[mr.ID] # mr]
                 ELSE /\ UNCHANGED mrCache
                      /\ sync' = Return(marked, "store", <<>>)
    /\ UNCHANGED <<now, ticks, world, startVars, remoteVars, projectCache, targets, tsProjects,
                   tsMrs, processQueue, workerVars, enqueuerVars, callerVars>>

\* FetchMergeRequests: m.db.NewIter(prefixIterOptions([]byte("mr-"))); the
\* iterator visits the keys the store holds now, in key order
SyncNewIter ==
    /\ sync.pc = "iter"
    /\ \E ok \in BOOLEAN :
         sync' = IF ok THEN [sync EXCEPT !.pc = "delete",
                                         !.keys = Ascending(Listed(mrCache))]
                 ELSE Return(sync, "iter", <<>>)
    /\ UNCHANGED <<now, ticks, world, startVars, remoteVars, storeVars, processQueue,
                   workerVars, enqueuerVars, callerVars>>

\* a map of the listed keys that no key of the store is found in
NeverInMrIds(key) == FALSE

\* FetchMergeRequests: mrIds[string(item)], for a key of the store
InMrIds(key) == key \in Listed(sync.seen)

\* FetchMergeRequests, the loop over the keys:
\* if !mrIds[string(item)] { m.db.Delete(item, pebble.Sync) }
SyncDelete ==
    /\ sync.pc = "delete"
    /\ IF sync.keys = <<>>
       THEN /\ sync' = [sync EXCEPT !.pc = "stampMrs"]
            /\ UNCHANGED mrCache
       ELSE IF InMrIds(Head(sync.keys))
       THEN /\ sync' = [sync EXCEPT !.keys = Tail(@)]
            /\ UNCHANGED mrCache
       ELSE \E ok \in BOOLEAN :
              IF ok
              THEN /\ mrCache' = [mrCache EXCEPT ![Head(sync.keys)] = Absent]
                   /\ sync' = [sync EXCEPT !.keys = Tail(@), !.written = TRUE,
                                           !.removed = @ \cup {Head(sync.keys)}]
              ELSE /\ UNCHANGED mrCache
                   /\ sync' = Return(sync, "delete", <<>>)
    /\ UNCHANGED <<now, ticks, world, startVars, remoteVars, projectCache, targets, tsProjects,
                   tsMrs, processQueue, workerVars, enqueuerVars, callerVars>>

\* GetOrFetchMergeRequests: setTimeStamp(timestampId, time.Now())
SyncStampMergeRequests ==
    /\ sync.pc = "stampMrs"
    /\ \E ok \in BOOLEAN :
         IF ok
         THEN /\ tsMrs' = TimeStamp(FormatRFC3339(now))
              /\ sync' = [sync EXCEPT !.pc = "load", !.mrs = "done", !.refreshed = TRUE,
                                      !.listing = sync.seen, !.written = FALSE]
         ELSE /\ UNCHANGED tsMrs
              /\ sync' = Return(sync, "set", <<>>)
    /\ UNCHANGED <<now, ticks, world, startVars, remoteVars, mrCache, projectCache, targets,
                   tsProjects, processQueue, workerVars, enqueuerVars, callerVars>>

\* mergeTarget{}: what GetMergeRequests pairs a merge request with when
\* m.load finds no target or fails
ZeroTarget == MergeTarget(0, 0, 0, "", "", ZeroTime, ZeroTime, FALSE)

\* slices.SortFunc(mrs, b.UpdatedAt.Compare(*a.UpdatedAt)): the latest first
RECURSIVE SortByUpdatedAt(_)
SortByUpdatedAt(mrs) ==
    IF mrs = <<>> THEN <<>>
    ELSE LET i == CHOOSE i \in 1..Len(mrs) :
                      \A j \in 1..Len(mrs) : mrs[j].UpdatedAt <= mrs[i].UpdatedAt
         IN <<mrs[i]>> \o SortByUpdatedAt(SubSeq(mrs, 1, i - 1) \o
                                          SubSeq(mrs, i + 1, Len(mrs)))

\* GetMergeRequests, the loop that pairs every merge request with its
\* target: _ = m.load("merge-target-"+strconv.Itoa(mr.ID), &target), a
\* target that could not be loaded being left the zero target
MergeRequestInfos(mrs, loadable) ==
    [i \in 1..Len(mrs) |->
        [MergeRequest |-> mrs[i],
         Target |-> IF mrs[i].ID \in loadable THEN targets[mrs[i].ID] ELSE ZeroTarget]]

\* GetMergeRequests: loadPrefix("mr-", &mrs) reads the values in key order
\* up to the one whose read fails; the list read, sorted and paired, is
\* returned with the error of loadPrefix
SyncGetMergeRequests ==
    /\ sync.pc = "load"
    /\ \E ok \in BOOLEAN, loadable \in SUBSET Listed(targets) :
         LET mrs == LoadPrefix(mrCache)
         IN \E n \in 0..Len(mrs) :
              /\ ok <=> n = Len(mrs)
              /\ sync' = Return(sync, IF ok THEN "" ELSE "load",
                                MergeRequestInfos(SortByUpdatedAt(SubSeq(mrs, 1, n)),
                                                  loadable))
    /\ UNCHANGED <<now, ticks, world, startVars, remoteVars, storeVars, processQueue,
                   workerVars, enqueuerVars, callerVars>>

----------------------------------------------------------------------------
(* The sync: the UI's calls and the remote                                 *)

\* the remote: a merge request is opened, updated, or closed
RemoteMergeRequests(id, mr) ==
    /\ glMrs[id] # mr
    /\ glMrs' = [glMrs EXCEPT ![id] = mr]
    /\ UNCHANGED <<now, ticks, world, startVars, glDiff, glProjects, storeVars, processQueue,
                   workerVars, enqueuerVars, callerVars, sync>>

\* the remote: a project is created or removed
RemoteProjects(id, project) ==
    /\ glProjects[id] # project
    /\ glProjects' = [glProjects EXCEPT ![id] = project]
    /\ UNCHANGED <<now, ticks, world, startVars, glDiff, glMrs, storeVars, processQueue,
                   workerVars, enqueuerVars, callerVars, sync>>

\* the statuses the remote gives a merge request in the sync
SyncStatuses == {"unchecked", "mergeable"}

\* the store as an earlier run of the program left it, the remote with merge
\* request 1 open
SyncInit ==
    /\ InitCommon
    /\ \E filter \in BOOLEAN :
         world = [ids |-> MrIds, statuses |-> SyncStatuses, diffs |-> SomeDiffs,
                  steps |-> SyncSteps, filter |-> filter, perPage |-> 1]
    /\ glMrs = [id \in MrIds |-> IF id = 1 THEN MergeRequest(id, "unchecked") ELSE Absent]
    /\ glProjects = [p \in ProjectIds |-> Project(p)]
    /\ mrCache \in {[id \in MrIds |-> Absent],
                    [id \in MrIds |-> MergeRequest(id, "unchecked")]}
    /\ projectCache = [p \in ProjectIds |-> Absent]
    /\ tsProjects \in {NoTimeStamp, TimeStamp(FormatRFC3339(StartTime - OneMinute))}
    /\ tsMrs = NoTimeStamp
    /\ targets = [id \in MrIds |->
                    IF id = 1 THEN NewTarget(MergeRequest(id, "unchecked"), InitialDiff,
                                             StartTime - OneMinute)
                    ELSE Absent]
    /\ wPc = "recv"
    /\ wTarget = Absent

\* the remote and the clock, between two calls of the UI: merge request 1 is
\* opened, updated and closed, the later ones opened and closed; the project
\* of the merge requests stays, the others are created and removed
SyncEnvironment ==
    \/ \E d \in world.steps : Tick(d)
    \/ \E status \in world.statuses : RemoteMergeRequests(1, MergeRequest(1, status))
    \/ \E id \in world.ids \ {1} : RemoteMergeRequests(id, MergeRequest(id, "unchecked"))
    \/ \E id \in world.ids : RemoteMergeRequests(id, Absent)
    \/ \E p \in ProjectIds \ {ProjectOf(1)} : RemoteProjects(p, Project(p))
    \/ \E p \in ProjectIds \ {ProjectOf(1)} : RemoteProjects(p, Absent)

SyncNext ==
    \/ sync.pc = "idle" /\ SyncEnvironment
    \/ \E force \in BOOLEAN : GetOrFetchMergeRequests(force)
    \/ SyncProjectsTimeStamp
    \/ SyncListProjects
    \/ SyncStoreProject
    \/ SyncStampProjects
    \/ SyncMrsTimeStamp
    \/ SyncListMergeRequests
    \/ SyncStoreMergeRequest
    \/ SyncNewIter
    \/ SyncDelete
    \/ SyncStampMergeRequests
    \/ SyncGetMergeRequests

SyncSpec == SyncInit /\ [][SyncNext]_vars

----------------------------------------------------------------------------
(* The staleness gate, the timestamps and the reconciliation, on SyncSpec  *)

\* time.Since(lastFetch) > ttl, for the timestamp the store holds
Stale(ts, ttl) == now - ParseRFC3339(ts.t) > ttl

\* C5 as stated: a remote listing call for the projects is made only when
\* now minus the stored timestamp of the projects exceeds 60 minutes, and one
\* for the merge requests only when now minus the stored timestamp of the
\* merge requests exceeds 1 minute or force is set.
C5_StalenessGate ==
    /\ sync.pc = "listProjects" => Stale(tsProjects, ProjectTTL)
    /\ sync.pc = "listMrs" => (Stale(tsMrs, MrTTL) \/ sync.force)

\* the store holds exactly what the remote returned to FetchMergeRequests
MergeRequestsReconciled ==
    /\ Listed(mrCache) = Listed(sync.seen)
    /\ \A id \in Listed(sync.seen) : mrCache[id] = sync.seen[id]

\* C6: a timestamp is changed only by the setTimeStamp that ends a refresh of
\* its class, to the time of that step, after the last page was listed and
\* with every listed item stored (and, for the merge requests, every key not
\* listed deleted); a call that returns an error from a refresh leaves the
\* timestamp of that class as it is, so that a refresh that was started
\* because the data was stale finds it stale again; and a refresh starts from
\* page 1 with nothing seen.
C6_TimestampOnlyOnSuccess ==
    [][/\ tsMrs' # tsMrs =>
            /\ sync.pc = "stampMrs" /\ sync.mrs = "started" /\ sync'.mrs = "done"
            /\ sync'.err = ""
            /\ tsMrs' = TimeStamp(FormatRFC3339(now))
            /\ sync.next = 0 /\ sync.items = <<>> /\ sync.keys = <<>>
            /\ sync.seen = glMrs
            /\ MergeRequestsReconciled
       /\ tsProjects' # tsProjects =>
            /\ sync.pc = "stampProjects" /\ sync.projects = "started"
            /\ sync'.projects = "done" /\ sync'.err = ""
            /\ tsProjects' = TimeStamp(FormatRFC3339(now))
            /\ sync.next = 0 /\ sync.items = <<>>
            /\ \A p \in Listed(glProjects) : projectCache[p] = glProjects[p]
       /\ (sync'.pc = "idle" /\ sync'.mrs = "started") =>
            /\ sync'.err # "" /\ sync'.result = <<>>
            /\ tsMrs' = tsMrs
            /\ Stale(tsMrs, MrTTL)' \/ sync'.force
       /\ (sync'.pc = "idle" /\ sync'.projects = "started") =>
            /\ sync'.err # "" /\ sync'.result = <<>>
            /\ tsProjects' = tsProjects /\ tsMrs' = tsMrs
       /\ (sync.pc = "mrsTs" /\ sync'.pc = "listMrs") =>
            sync'.page = 1 /\ Listed(sync'.seen) = {}
       /\ (sync.pc = "projectsTs" /\ sync'.pc = "listProjects") => sync'.page = 1
      ]_vars

\* C6, the case: a refresh of the merge requests that had stored a page and
\* failed to delete a key has returned; the timestamp is still missing
C6_Witness ==
    /\ sync.pc = "idle"
    /\ sync.mrs = "started"
    /\ sync.err = "delete"
    /\ sync.written
    /\ ~sync.force
    /\ tsMrs = NoTimeStamp

\* C7: after a refresh of the merge requests that succeeded, and until the
\* next call, the keys of the cached merge requests are exactly the ids
\* the remote returned over all the pages, every one with the snapshot
\* returned; and those ids are the whole listing of the remote.
C7_MergeRequestReconciliation ==
    sync.mrs = "done" =>
        /\ MergeRequestsReconciled
        /\ sync.pc = "load" => sync.seen = glMrs

\* C7, the case: the refresh was done in two pages, stored an updated
\* snapshot of merge request 1 and deleted nothing; or deleted merge request 2
C7_Witness ==
    /\ sync.mrs = "done"
    /\ sync.removed = {2}
    /\ sync.seen[1] = MergeRequest(1, "mergeable")
    /\ mrCache[1] = MergeRequest(1, "mergeable")
    /\ mrCache[2] = Absent

\* C8 as stated: when the refresh of the projects has succeeded, every cached
\* project is one the remote listed in that refresh.
C8_ProjectReconciliation ==
    (sync.projects = "done" /\ sync.pc # "idle") =>
        Listed(projectCache) \subseteq Listed(glProjects)

\* the remote lists the merge requests it listed in the last refresh that
\* succeeded
SameListing == sync.refreshed /\ glMrs = sync.listing

PolicyError == "author and/or reviewer username must be set"

\* where a call is from the listing of the merge requests on
AfterTheGate == {"listMrs", "storeMrs", "iter", "delete", "stampMrs", "load"}

\* what a step does when neither filter is set
WithoutFilter ==
    /\ UNCHANGED <<mrCache, tsMrs>>
    /\ sync'.pc \notin AfterTheGate
    /\ (sync.pc # "idle" /\ sync'.pc = "idle") =>
          sync'.err # "" /\ sync'.result = <<>>
    /\ (sync.pc = "mrsTs" /\ sync'.pc = "idle" /\ sync'.mrs = "started") =>
          sync'.err = PolicyError
    /\ sync.pc # "idle" =>
          UNCHANGED <<targets, processQueue, workerVars, enqueuerVars, callerVars>>

\* C21: policy error.  When neither an author nor a reviewer filter is set,
\* every call of GetOrFetchMergeRequests returns an error and no result;
\* the call that gets as far as FetchMergeRequests returns its "author
\* and/or reviewer username must be set".  No step of the call lists the
\* merge requests of the remote, changes a stored merge request or the
\* timestamp of the merge requests, or touches the targets, the channel,
\* the processor or the enqueuer.
C21_PolicyError == [][~world.filter => WithoutFilter]_vars

\* C21, the case: without a filter, a call has refreshed the projects and
\* returned the error of FetchMergeRequests
C21_Witness ==
    /\ ~world.filter
    /\ sync.pc = "idle"
    /\ sync.err = PolicyError
    /\ sync.projects = "done"
    /\ sync.mrs = "started"
    /\ tsMrs = NoTimeStamp

----------------------------------------------------------------------------
(* The fingerprint guard and the state machine, on SpecWorker              *)

\* the worker has finished processMerge for an active target
Processed == wPc = "done" /\ wTarget # Absent /\ wTarget.Active /\ wStatus # ""

\* the record the worker handed to the store is the one the store holds,
\* unless the store failed (storeTargetSilent logs the error)
PutIsStored == wLog.stored => targets[wTarget.Id] = wLog.put

\* C1: fingerprint guard.  While the worker processes an active target whose
\* remote status is "not_approved", it has called ApproveMergeRequest only if
\* it pulled the diff and the text rendered from the pulled diff equals the
\* target's DiffHash; and if the rendered text differs, no approve call is
\* made and processMerge ends by stopProcessing: the record handed to the
\* store (and stored, unless the store fails) is the target with
\* Active = FALSE and Info = "aborted - diff changed".
C1_FingerprintGuard ==
    (wTarget # Absent /\ wTarget.Active /\ wStatus = "not_approved") =>
        /\ "approve" \in wLog.calls =>
             wLog.pulled /\ RenderDiffString(wLog.diff) = wTarget.DiffHash
        /\ (wLog.pulled /\ RenderDiffString(wLog.diff) # wTarget.DiffHash) =>
             /\ wLog.calls = {}
             /\ wPc \in {"stop", "done"}
             /\ wPc = "stop" => wArgs.info = "aborted - diff changed"
             /\ wPc = "done" =>
                  /\ wLog.put = [wTarget EXCEPT !.Active = FALSE, !.Next = wLog.at,
                                                !.Info = "aborted - diff changed"]
                  /\ PutIsStored

\* C1, the case: the pulled diff renders to a text of the same length as the
\* fingerprint and differs from it, and the target was stopped and stored
C1_Witness ==
    /\ Processed
    /\ wStatus = "not_approved"
    /\ wLog.pulled
    /\ RenderDiffString(wLog.diff) # wTarget.DiffHash
    /\ Len(RenderDiffString(wLog.diff)) = Len(wTarget.DiffHash)
    /\ wLog.stored
    /\ ~targets[wTarget.Id].Active

\* what C10 says of every field but Next
C10_Rescheduled ==
    /\ wLog.calls = {}
    /\ wLog.put = [wTarget EXCEPT
                     !.Next = wLog.at + OneMinute,
                     !.Info = "status " \o wStatus \o " - will check again in 1 minute"]
    /\ wLog.put.Active
    /\ PutIsStored

Approved ==
    /\ Processed
    /\ wStatus = "not_approved"
    /\ "approve" \in wLog.calls \ wLog.failed

\* what C11 says of every field but Next
C11_Rescheduled ==
    /\ wLog.pulled /\ RenderDiffString(wLog.diff) = wTarget.DiffHash
    /\ wLog.put.Id = wTarget.Id
    /\ wLog.put.Active
    /\ wLog.put.Info = "approved - will try to merge"
    /\ PutIsStored

C13_BlockingStatus ==
    /\ (wTarget # Absent /\ wStatus \in BlockingStatuses) =>
          wLog.calls = {} /\ ~wLog.pulled
    /\ (Processed /\ wStatus \in BlockingStatuses) =>
          /\ wLog.put = [wTarget EXCEPT !.Active = FALSE, !.Next = wLog.at,
                                        !.Info = "aborted - " \o wStatus]
          /\ ~wLog.put.Active
          /\ PutIsStored

\* C13, the case: a draft was processed and its record is stored inactive
C13_Witness ==
    /\ Processed
    /\ wStatus = "draft_status"
    /\ wLog.stored
    /\ ~targets[wTarget.Id].Active
    /\ targets[wTarget.Id].Info = "aborted - draft_status"

\* the approve call or the merge call was made and returned an error
MutationFailed ==
    /\ Processed
    /\ \/ wStatus = "not_approved" /\ "approve" \in wLog.failed
       \/ wStatus = "mergeable" /\ "merge" \in wLog.failed

\* C14: remote mutation failure.  When the approve call (status
\* "not_approved", the fingerprint matching) or the merge call (status
\* "mergeable") of an active target returns an error, the record handed to
\* the store (and stored, unless the store fails) is the target with
\* Active = TRUE, Next one minute after the time.Now() of reschedule() and
\* the Info "error approving ..." or "error merging ...": the target is not
\* stopped.  The calls are made only for these statuses, the approve call
\* only after the fingerprint matched.
C14_MutationFailure ==
    /\ (wTarget # Absent /\ "approve" \in wLog.calls) =>
          /\ wStatus = "not_approved"
          /\ wLog.pulled /\ RenderDiffString(wLog.diff) = wTarget.DiffHash
    /\ (wTarget # Absent /\ "merge" \in wLog.calls) => wStatus = "mergeable"
    /\ wLog.failed \subseteq wLog.calls
    /\ MutationFailed =>
          /\ wLog.put =
               [wTarget EXCEPT
                  !.Next = wLog.at + OneMinute,
                  !.Info = IF wStatus = "mergeable"
                           THEN "error merging - will check again in 1 minute"
                           ELSE "error approving - will check again in 1 minute"]
          /\ wLog.put.Active
          /\ wLog.put.Next > wLog.at
          /\ PutIsStored

\* C14, the case: the merge call failed and the record is stored active,
\* due in one minute
C14_Witness ==
    /\ MutationFailed
    /\ wStatus = "mergeable"
    /\ wLog.stored
    /\ targets[wTarget.Id].Active
    /\ targets[wTarget.Id].Next = now + OneMinute

\* C15: unrecognized status.  From the moment the worker has fetched a
\* status that is none of the transient ones, "not_approved", "mergeable"
\* and the permanently blocking ones, no step changes a stored target (the
\* record keeps its Active, Next, Latest and Info), no approve or merge call
\* is made, no diff is pulled, nothing is handed to the store, and the
\* worker goes from processMerge straight back to its range loop.
C15_UnrecognizedStatus ==
    [][(wTarget # Absent /\ wStatus \in OtherStatuses) =>
         /\ targets' = targets
         /\ wLog = NoLog
         /\ wPc \in {"merge", "done"}
         /\ wPc = "merge" => wPc' \in {"merge", "done"}
         /\ wPc = "done" => wPc' \in {"done", "fetch", "recv"}
         /\ wLog' = NoLog]_vars

\* C15, the case: an active target was processed with the status
\* "preparing" and its stored record is the one the worker received
C15_Witness ==
    /\ Processed
    /\ wStatus = "preparing"
    /\ wLog = NoLog
    /\ targets[wTarget.Id] = [wTarget EXCEPT !.Latest = targets[wTarget.Id].Latest]
    /\ targets[wTarget.Id].Active

\* what the processor does from the answer of GetMergeRequest to the
\* switch of processMerge
FreshStatus ==
    /\ (wPc = "fetch" /\ wPc' # wPc) =>
          \/ wPc' = "done" /\ UNCHANGED <<mrCache, wStatus>>
          \/ /\ wPc' = "merge"
             /\ wStatus' \in world.statuses
             /\ \/ mrCache' = [mrCache EXCEPT ![wTarget.Id] =
                                              MergeRequest(wTarget.Id, wStatus')]
                \/ mrCache' = mrCache
    /\ (wPc = "merge" /\ wPc' # wPc) =>
          /\ UNCHANGED <<mrCache, wStatus>>
          /\ wPc' = IF wTarget.Active THEN Decide(wStatus).pc ELSE "done"
    /\ wPc \notin {"fetch", "done"} => UNCHANGED wStatus

\* C22: decision on fresh status.  The status processMerge switches on is
\* the DetailedMergeStatus GetMergeRequest returned for the target in
\* process, whatever the stored merge request says; the snapshot fetched is
\* handed to the store before processMerge is called, and processMerge is
\* called whether the store took it or not.
C22_FreshStatus == [][FreshStatus]_vars

\* C22, the case: the remote said "mergeable", the store did not take the
\* snapshot and still says "unchecked", and processMerge goes to the merge
C22_Witness ==
    /\ wPc = "accept"
    /\ wStatus = "mergeable"
    /\ mrCache[wTarget.Id] = MergeRequest(wTarget.Id, "unchecked")

\* the worker calls AcceptMergeRequest in this step
Merges == wPc = "accept" /\ "merge" \in wLog'.calls

\* C23 as stated: the worker calls AcceptMergeRequest for a target only if
\* the text rendered from the current diff of the remote equals the
\* DiffHash the target got at its authorization.
C23_NoMergeOfChangedContent ==
    [][Merges =>
         RenderDiffString(glDiff[RemoteId(wTarget.ProjectID, wTarget.MergeID)])
           = wTarget.DiffHash]_vars

----------------------------------------------------------------------------
(* The hand-off and the races, on Spec                                     *)

\* a send on m.processQueue completes in this step
SendCompletes ==
    \/ ePc = "send" /\ ePc' = "scan"
    \/ cPc = "send" /\ cPc' = "idle"

\* C2: serialized execution.  A send on the hand-off channel, by the
\* enqueuer or by a caller of ApproveAndMergeMergeRequest, completes only
\* when the worker has finished the target before and waits in its range
\* loop, and the worker then processes the target sent: no target is
\* accepted while another is being processed.
C2_SerializedExecution ==
    [][SendCompletes =>
         /\ wPc = "recv"
         /\ wTarget = Absent
         /\ wPc' = "fetch"
         /\ wTarget' \in {cTarget, IF eList # <<>> THEN Head(eList) ELSE Absent}
         /\ processQueue' = <<>>]_vars

\* C2, the case: the enqueuer and a caller both wait in their send while the
\* worker is between its approve call and the record write
C2_Witness ==
    /\ ePc = "send"
    /\ cPc = "send"
    /\ wPc = "resched"
    /\ "approve" \in wLog.calls

\* C3 as stated: once the stored record of an id has Active = FALSE, no step
\* of the worker or of the enqueuer stores a record with Active = TRUE for
\* that id; only ApproveAndMergeMergeRequest (the step that takes a caller
\* from idle to its send) makes it active again.
C3_InactiveIsTerminal ==
    [][\A id \in MrIds :
         (IsInactive(targets[id]) /\ IsActive(targets'[id])) =>
             (cPc = "idle" /\ cPc' = "send")]_vars

\* C4 as stated: the enqueuer deletes a target record only if that record
\* has Active = FALSE, a Latest more than 30 minutes in the past and an Info
\* other than "aborted - diff changed" (the enqueuer is the only one to
\* delete a target).
C4_GarbageCollectionRule ==
    [][\A id \in MrIds :
         (targets[id] # Absent /\ targets'[id] = Absent) =>
             /\ ~targets[id].Active
             /\ targets[id].Latest < now - GcGrace
             /\ targets[id].Info # "aborted - diff changed"]_vars

\* the stored record of the id is the one stopProcessing wrote after a merge
IsMerged(id) ==
    /\ IsInactive(targets[id])
    /\ targets[id].Info = "merged"

\* the step of stopProcessing that follows a merge call that returned no
\* error
StoppedAfterMerge ==
    /\ wPc = "stop" /\ wPc' = "done"
    /\ wStatus = "mergeable"
    /\ "merge" \in wLog.calls \ wLog.failed

\* C12 as stated: an active target processed with "mergeable", the merge
\* call succeeding, is stored with Active = FALSE and Info = "merged", and
\* while the stored record is this one the enqueuer never hands the target
\* to the worker again.
C12_MergeSuccess ==
    [][/\ StoppedAfterMerge =>
            /\ wLog'.put = [wTarget EXCEPT !.Active = FALSE, !.Next = now,
                                           !.Info = "merged"]
            /\ wLog'.stored => targets'[wTarget.Id] = wLog'.put
       /\ (ePc = "send" /\ ePc' = "scan") => ~IsMerged(Head(eList).Id)]_vars

\* the enqueuer examines the first target of its list in this step
Examines ==
    /\ ePc = "scan" /\ eList # <<>>
    /\ <<ePc, eList>>' # <<ePc, eList>>

Authorizes == cPc = "idle" /\ cPc' = "send"

\* what C20 says apart from the fingerprint: the call gets to its send only
\* for a merge request in the cache and with the target stored, the target
\* has the Id, ProjectID and IID of the cached merge request, Active = TRUE
\* and Next = now, the worker has not received it in that step, and the send
\* hands over the target stored
C20_Tracked ==
    /\ Authorizes =>
          /\ cTarget' # Absent
          /\ mrCache[cTarget'.Id] # Absent
          /\ cTarget'.Id = mrCache[cTarget'.Id].ID
          /\ cTarget'.ProjectID = mrCache[cTarget'.Id].ProjectID
          /\ cTarget'.MergeID = mrCache[cTarget'.Id].IID
          /\ cTarget'.Active
          /\ cTarget'.Next = now
          /\ targets'[cTarget'.Id] = cTarget'
          /\ UNCHANGED <<processQueue, workerVars>>
    /\ (cPc = "send" /\ cPc' = "idle") => wTarget' = cTarget
    /\ cPc' = "send" => cTarget' # Absent /\ (cPc = "send" \/ Authorizes)

Dispatched(id) == wPc = "fetch" /\ wTarget.Id = id

\* the clock of the model has made its last step and the Next of the stored
\* target is not behind it
ClockStopped(id) == ticks = MaxTicks /\ IsActive(targets[id]) /\ targets[id].Next >= now

\* the target of the merge request is visited again, or is no longer to be
\* visited
Visited(id) == Dispatched(id) \/ IsInactive(targets[id]) \/ ClockStopped(id)

\* C18 as stated: under fair scheduling, whenever the stored target of a
\* merge request has Active = TRUE, later the worker receives a target of
\* that merge request or the stored target has Active = FALSE (unless the
\* clock of the model stops before the Next of the target).
C18_ActiveIsVisited ==
    \A id \in {1} : IsActive(targets[id]) ~> Visited(id)

\* the worker's GetMergeRequest for the target fails in this step
FetchFails == wPc = "fetch" /\ wPc' = "done"

\* the worker's GetMergeRequest for a target of the merge request has failed
FetchFailed(id) ==
    /\ wPc = "done"
    /\ wStatus = ""
    /\ wTarget # Absent
    /\ wTarget.Id = id

\* what the worker does when GetMergeRequest fails: it changes neither the
\* stored target nor the stored merge request, makes no approve or merge
\* call, and goes back to its range loop
NothingChanged ==
    /\ FetchFails =>
          /\ UNCHANGED <<targets, mrCache, wTarget, wStatus, wLog>>
          /\ wLog = NoLog
    /\ (FetchFailed(wTarget.Id) /\ wPc' # wPc) =>
          /\ UNCHANGED <<targets, mrCache>>
          /\ wLog = NoLog
          /\ wPc' \in {"recv", "fetch"}

\* C19 as stated: when GetMergeRequest fails for a target, the worker
\* changes neither the stored target nor the stored merge request, makes no
\* approve or merge call and goes back to its range loop; and the target,
\* if its stored record is active, is dispatched again later (unless it is
\* made inactive, or the clock of the model stops before its Next).
C19_FetchFailure ==
    /\ [][NothingChanged]_vars
    /\ \A id \in {1} : (FetchFailed(id) /\ IsActive(targets[id])) ~> Visited(id)

\* no two targets are in the hands of processors at once
Serialized == ~(wTarget # Absent /\ otherProcessor.wTarget # Absent)

\* C16 as stated: after any number of calls of Start there is exactly one
\* processor goroutine and exactly one enqueuer goroutine, so that no two
\* targets are processed at once.
C16_StartOnce ==
    /\ running.processors = 1
    /\ running.enqueuers = 1
    /\ Serialized

\* the worker writes the record of its target in this step
WorkerWrites ==
    /\ wPc \in {"resched", "stop"}
    /\ wPc' = "done"
    /\ wLog'.stored

\* the target the worker works on is, but for the Latest processMerge set,
\* the stored record of its id
SnapshotIsCurrent ==
    /\ targets[wTarget.Id] # Absent
    /\ [targets[wTarget.Id] EXCEPT !.Latest = wTarget.Latest] = wTarget

\* the worker is handed what is stored, overwrites only what it was handed,
\* and the enqueuer does not send the target a caller is about to send
NoStaleSnapshot ==
    /\ SendCompletes => wTarget' = targets'[wTarget'.Id]
    /\ WorkerWrites => SnapshotIsCurrent
    /\ (ePc = "send" /\ ePc' = "scan") => ~(cPc = "send" /\ cTarget = Head(eList))

\* C24 as stated: when the worker receives a target, the target equals the
\* record stored for its id; a write of the worker overwrites only the
\* record the worker was handed, never one changed since by ClearMerge, by
\* a new authorization or by the enqueuer; and the enqueuer does not
\* dispatch the authorization whose caller is still waiting to dispatch it.
C24_NoStaleSnapshot == [][NoStaleSnapshot]_vars

\* the enqueuer deletes the record of the id in this step
Deletes(id) == targets[id] # Absent /\ targets'[id] = Absent

\* C25 as stated: when the enqueuer deletes a record, the record stored
\* under the key at that moment has Active = FALSE; a record authorized
\* again after the enqueuer loaded its list is not deleted.
C25_NoLiveTaskCollected ==
    [][\A id \in MrIds : Deletes(id) => IsInactive(targets[id])]_vars

\* a goroutine waits in its send on processQueue
SenderWaits == ePc = "send" \/ cPc = "send"

\* a step of the processor, or a send that completes
HandOffStep == WorkerStep \/ EnqueuerSend \/ CallerSend

\* C26: no deadlock on the hand-off.  With one processor and one enqueuer
\* goroutine and remote calls that return, whenever the enqueuer or a caller
\* of ApproveAndMergeMergeRequest waits in its send, the processor can take
\* a step or a send can complete, so the three are never all blocked; every
\* send is accepted in the end, so ApproveAndMergeMergeRequest returns and
\* the enqueuer gets to the end of each scan.
C26_NoDeadlock ==
    /\ [](SenderWaits => ENABLED HandOffStep)
    /\ (ePc = "send") ~> (ePc = "scan")
    /\ (cPc = "send") ~> (cPc = "idle")
    /\ (ePc = "scan") ~> (ePc = "load")

\* C26, the case: the enqueuer and a caller both wait in their send while
\* the processor is in its AcceptMergeRequest call
C26_Witness ==
    /\ ePc = "send"
    /\ cPc = "send"
    /\ wPc = "accept"
    /\ running = StartedOnce

====
